---- MODULE Spec2Model ----
(***************************************************************************)
(* Model of recognition/OASIS-Brain-StableDiffusion: utils.py (noise       *)
(* schedule, forward noising, timestep sampling, loss CSV dump) and        *)
(* blocks.py (ConvReluBlock, EncoderBlock, DecoderBlock, AttentionBlock,   *)
(* UNet).                                                                  *)
(*                                                                         *)
(* Floating point values are fixed-point integers in units of 1/Scale.     *)
(* A tensor is a record [shape, data, device]: data maps every index        *)
(* tuple (0-based, one entry per axis) to its value.  A call returns a     *)
(* record [status, value]: status "ok" or the name of the exception the    *)
(* call raises.                                                            *)
(***************************************************************************)
EXTENDS Integers, Sequences, FiniteSets, TLC

VARIABLES op,      \* name of the last operation called ("init" before any)
          args,    \* its arguments
          ret,     \* what it returned or raised
          fs,      \* the file system: file name -> [exists, text]
          prevSize \* size of "Epoch Loss.csv" when the last save_loss_data call began

vars == <<op, args, ret, fs, prevSize>>

-----------------------------------------------------------------------------
(* Bounds of the model *)

MaxBatch == 2    \* batch sizes 1..MaxBatch, timestep tensors of 0..MaxBatch entries
MaxChan == 2     \* image channels 1..MaxChan
MaxSide == 2     \* image height and width 1..MaxSide
MaxSeed == 1     \* sample tensors per shape (image contents, noise draws)
MaxSize == 1     \* get_sample_pos is asked for 0..MaxSize timesteps
MaxRows == 2     \* loss lists of 0..MaxRows rows

-----------------------------------------------------------------------------
(* Fixed-point arithmetic *)

Half == 10^4
Scale == Half * Half

\* floor(a * b / Scale) for 0 <= a, b <= Scale, without leaving 32 bits
FMul(a, b) ==
    LET a1 == a \div Half  a0 == a % Half
        b1 == b \div Half  b0 == b % Half
    IN a1 * b1 + ((a1 * b0 + a0 * b1) + ((a0 * b0) \div Half)) \div Half

\* round(num / den), num >= 0, den > 0
RoundDiv(num, den) == (2 * num + den) \div (2 * den)

RECURSIVE ISqrtIn(_, _, _)
ISqrtIn(v, lo, hi) ==
    IF lo >= hi THEN lo
    ELSE LET mid == (lo + hi + 1) \div 2
         IN IF mid * mid <= v THEN ISqrtIn(v, mid, hi) ELSE ISqrtIn(v, lo, mid - 1)

\* sqrt of a fixed-point value in [0, Scale]: floor(sqrt(v)) * sqrt(Scale)
FSqrt(v) == ISqrtIn(v, 0, Half) * Half

-----------------------------------------------------------------------------
(* Tensors *)

Ok(v) == [status |-> "ok", value |-> v]
Raise(e) == [status |-> e, value |-> <<>>]

RECURSIVE Indices(_)
Indices(shape) ==
    IF shape = <<>> THEN {<<>>}
    ELSE LET n == Len(shape)
         IN {Append(p, k) : p \in Indices(SubSeq(shape, 1, n - 1)), k \in 0 .. shape[n] - 1}

RECURSIVE Numel(_)
Numel(shape) == IF shape = <<>> THEN 1 ELSE Head(shape) * Numel(Tail(shape))

\* row-major offset of idx in a tensor of the given shape
RECURSIVE Offset(_, _)
Offset(shape, idx) ==
    IF shape = <<>> THEN 0
    ELSE LET n == Len(shape)
         IN Offset(SubSeq(shape, 1, n - 1), SubSeq(idx, 1, n - 1)) * shape[n] + idx[n]

Tensor(shape, data, device) == [shape |-> shape, data |-> data, device |-> device]

\* t[None, None, None, :] of a 1-D tensor: the new axes in front
Unsqueeze3Front(t) ==
    Tensor(<<1, 1, 1>> \o t.shape,
           [i \in Indices(<<1, 1, 1>> \o t.shape) |-> t.data[<<i[4]>>]],
           t.device)

\* t[:, None, None, None] of a 1-D tensor
Unsqueeze3(t) ==
    Tensor(t.shape \o <<1, 1, 1>>,
           [i \in Indices(t.shape \o <<1, 1, 1>>) |-> t.data[<<i[1]>>]],
           t.device)

Max(a, b) == IF a >= b THEN a ELSE b

\* size of axis k (1-based, counted in the broadcast rank r) of a shape
\* right-aligned to rank r: missing leading axes count as 1
AxisOf(shape, r, k) ==
    LET j == k - (r - Len(shape)) IN IF j >= 1 THEN shape[j] ELSE 1

BroadcastRank(s1, s2) == Max(Len(s1), Len(s2))

Broadcastable(s1, s2) ==
    \A k \in 1 .. BroadcastRank(s1, s2) :
        LET a == AxisOf(s1, BroadcastRank(s1, s2), k)
            b == AxisOf(s2, BroadcastRank(s1, s2), k)
        IN a = b \/ a = 1 \/ b = 1

BroadcastShape(s1, s2) ==
    [k \in 1 .. BroadcastRank(s1, s2) |->
        LET a == AxisOf(s1, BroadcastRank(s1, s2), k)
            b == AxisOf(s2, BroadcastRank(s1, s2), k)
        IN IF a = 1 THEN b ELSE a]

\* the index of operand `shape` that result index idx (rank r) reads
Project(shape, r, idx) ==
    [j \in 1 .. Len(shape) |->
        IF shape[j] = 1 THEN 0 ELSE idx[j + (r - Len(shape))]]

OneMinus(v) == Scale - v

\* the scalar operations applied elementwise
Apply1(f, v) == IF f = "sqrt" THEN FSqrt(v) ELSE OneMinus(v)
Apply2(f, u, v) == IF f = "mul" THEN u * v ELSE u + v

\* elementwise binary operation with broadcasting; operands on different
\* devices raise (neither operand here is 0-dimensional)
BinOp(f, a, b) ==
    IF a.device # b.device THEN Raise("RuntimeError")
    ELSE IF ~Broadcastable(a.shape, b.shape) THEN Raise("RuntimeError")
    ELSE LET s == BroadcastShape(a.shape, b.shape)
             r == Len(s)
         IN Ok(Tensor(s,
                      [i \in Indices(s) |->
                          Apply2(f, a.data[Project(a.shape, r, i)], b.data[Project(b.shape, r, i)])],
                      a.device))

\* elementwise unary operation
Map(f, t) == Tensor(t.shape, [i \in DOMAIN t.data |-> Apply1(f, t.data[i])], t.device)

\* element k (row-major) of sample tensor number seed: a value in -2 .. 2
SampleValue(seed, k) == ((seed * (k + 1) + k \div 3) % 5) - 2

SampleTensor(shape, seed, device) ==
    Tensor(shape, [i \in Indices(shape) |-> SampleValue(seed, Offset(shape, i))], device)

\* a 1-D tensor holding the entries of a sequence
FromSeq(seq, device) ==
    Tensor(<<Len(seq)>>, [i \in Indices(<<Len(seq)>>) |-> seq[i[1] + 1]], device)

\* tensor.to(device)
To(t, device) == Tensor(t.shape, t.data, device)

-----------------------------------------------------------------------------
(* utils.py: the noise schedule *)

T == 1000
LinStart == Scale \div 10000      \* 1e-4
LinEnd == (2 * Scale) \div 100    \* 0.02

\* torch.linspace with the upper half computed from the start as well
linspaceFromStart(start, end, steps) ==
    LET step == RoundDiv(end - start, steps - 1)
    IN FromSeq([k \in 1 .. steps |-> start + step * (k - 1)], "cpu")

\* torch.linspace(start, end, steps), steps >= 2: the step is rounded once,
\* the lower half counts up from start, the upper half down from end
linspace(start, end, steps) ==
    LET step == RoundDiv(end - start, steps - 1)
        halfway == steps \div 2
    IN FromSeq([k \in 1 .. steps |->
                   IF k - 1 < halfway THEN start + step * (k - 1)
                   ELSE end - step * (steps - k)],
               "cpu")

get_noise_cadence == linspace(LinStart, LinEnd, T)

\* cumulative products of seq[lo .. hi], left to right, continuing from init
RECURSIVE CumProdFrom(_, _, _, _)
CumProdFrom(seq, lo, hi, init) ==
    IF lo = hi THEN <<FMul(init, seq[lo])>>
    ELSE LET mid == (lo + hi) \div 2
             left == CumProdFrom(seq, lo, mid, init)
         IN left \o CumProdFrom(seq, mid + 1, hi, left[Len(left)])

\* torch.cumprod(t, dim=0) of a non-empty 1-D tensor
cumprod(t) ==
    LET n == t.shape[1]
        seq == [k \in 1 .. n |-> t.data[<<k - 1>>]]
    IN FromSeq(CumProdFrom(seq, 1, n, Scale), t.device)

\* lines 25-27 of add_noise: the same three tensors on every call
Beta == To(get_noise_cadence, "cuda")
Alpha == Map("one_minus", Beta)
AlphaCumprod == cumprod(Alpha)

-----------------------------------------------------------------------------
(* utils.py: add_noise *)

\* the entry of a 1-D tensor of n entries that index i selects: negative
\* indices count from the end; -1 stands for out of bounds
WrapIndex(n, i) ==
    IF 0 <= i /\ i < n THEN i
    ELSE IF -n <= i /\ i < 0 THEN n + i
    ELSE -1

\* t[pos] for a 1-D tensor t and a 1-D integer tensor pos (a sequence).
\* An out-of-bounds entry raises; on the CUDA device the failure is the
\* kernel's "index out of bounds" assertion.
IndexSelect(t, pos) ==
    IF \E k \in 1 .. Len(pos) : WrapIndex(t.shape[1], pos[k]) = -1
    THEN Raise("IndexError")
    ELSE Ok(FromSeq([k \in 1 .. Len(pos) |-> t.data[<<WrapIndex(t.shape[1], pos[k])>>]],
                    t.device))

\* torch.randn_like(x): sample number seed of x's shape, on x's device
randn_like(x, seed) == SampleTensor(x.shape, seed, x.device)

\* add_noise(x, pos), E being the noise randn_like draws
add_noise(x, pos, E) ==
    LET sel == IndexSelect(AlphaCumprod, pos)
    IN IF sel.status # "ok" THEN sel
       ELSE LET sqrt_alpha_cumprod == Unsqueeze3(Map("sqrt", sel.value))
                sqrt_minus_alpha_cumprod == Unsqueeze3(Map("sqrt", Map("one_minus", sel.value)))
                m1 == BinOp("mul", sqrt_alpha_cumprod, x)
                m2 == BinOp("mul", sqrt_minus_alpha_cumprod, E)
            IN IF m1.status # "ok" THEN m1
               ELSE IF m2.status # "ok" THEN m2
               ELSE LET sum == BinOp("add", m1.value, m2.value)
                    IN IF sum.status # "ok" THEN sum
                       ELSE Ok(<<sum.value, E>>)

-----------------------------------------------------------------------------
(* utils.py: get_sample_pos *)

SampleLow == 1
SampleHigh == 1000

\* torch.randint with the upper end included
randintInclusive(low, high, size) ==
    {[k \in 1 .. size |-> IF k = j THEN v ELSE e[k]] :
        j \in 1 .. Max(size, 1), v \in low .. high, e \in [1 .. size -> {low, high}]}

\* the tensors torch.randint(low, high, (size,)) returns: every entry an
\* integer with low <= entry < high.  Explored are the tensors in which one
\* entry takes any value of the range while the others sit at either end of
\* it (all of them for size <= 1).
randint(low, high, size) ==
    {[k \in 1 .. size |-> IF k = j THEN v ELSE e[k]] :
        j \in 1 .. Max(size, 1), v \in low .. high - 1, e \in [1 .. size -> {low, high - 1}]}

get_sample_pos(size) == randint(SampleLow, SampleHigh, size)

-----------------------------------------------------------------------------
(* The noise utilities as a state machine: any call in any order *)

Devices == {"cpu", "cuda"}

ImageShapes ==
    {<<b, c, h, w>> : b \in 1 .. MaxBatch, c \in 1 .. MaxChan,
                      h \in 1 .. MaxSide, w \in 1 .. MaxSide}

\* timestep values around both ends of the schedule
PosValues == {-T - 1, -T, -1, 0, T - 1, T}

PosTensors == UNION {[1 .. n -> PosValues] : n \in 0 .. MaxBatch}

NoFiles == [f \in {"Epoch Loss.csv", "Test Loss.csv"} |-> [exists |-> FALSE, text |-> <<>>]]

\* ret before the call pending in op and args has run
Pending == [status |-> "pending", value |-> <<>>]

ImageTensors ==
    {SampleTensor(shape, sx, dev) : shape \in ImageShapes, sx \in 1 .. MaxSeed, dev \in Devices}

\* a caller about to call get_noise_cadence() or add_noise(x, pos)
InitNoise ==
    /\ ret = Pending
    /\ fs = NoFiles
    /\ prevSize = 0
    /\ \/ op = "get_noise_cadence" /\ args = <<>>
       \/ op = "add_noise" /\ args \in [x : ImageTensors, pos : PosTensors]

GetNoiseCadence ==
    /\ op = "get_noise_cadence" /\ ret = Pending
    /\ ret' = Ok(get_noise_cadence)
    /\ UNCHANGED <<op, args, fs, prevSize>>

AddNoise ==
    /\ op = "add_noise" /\ ret = Pending
    /\ \E se \in 1 .. MaxSeed : ret' = add_noise(args.x, args.pos, randn_like(args.x, se))
    /\ UNCHANGED <<op, args, fs, prevSize>>

NextNoise == GetNoiseCadence \/ AddNoise

SpecNoise == InitNoise /\ [][NextNoise]_vars

\* a training step about to draw one timestep per batch element and to
\* noise a batch with them: pos = get_sample_pos(B); add_noise(x, pos)
InitSample ==
    /\ ret = Pending
    /\ fs = NoFiles
    /\ prevSize = 0
    /\ op = "get_sample_pos"
    /\ args \in [size : 0 .. MaxSize]

GetSamplePos ==
    /\ op = "get_sample_pos" /\ ret = Pending
    /\ \E t \in get_sample_pos(args.size) : ret' = Ok(t)
    /\ UNCHANGED <<op, args, fs, prevSize>>

AddNoiseSampled ==
    /\ op = "get_sample_pos" /\ ret.status = "ok"
    /\ \E sx \in 1 .. MaxSeed, se \in 1 .. MaxSeed :
        LET x == SampleTensor(<<Len(ret.value), 1, 1, 1>>, sx, "cuda")
        IN /\ op' = "add_noise"
           /\ args' = [x |-> x, pos |-> ret.value]
           /\ ret' = add_noise(x, ret.value, randn_like(x, se))
           /\ UNCHANGED <<fs, prevSize>>

NextSample == GetSamplePos \/ AddNoiseSampled

SpecSample == InitSample /\ [][NextSample]_vars

-----------------------------------------------------------------------------
(* utils.py: save_loss_data.  A file's text is a sequence of characters.   *)
(* The interpreter is CPython on a POSIX host: a file object is closed,    *)
(* and its buffer flushed, when its last reference goes away, and text     *)
(* mode writes "\n" unchanged.                                             *)

Digits == <<"0", "1", "2", "3", "4", "5", "6", "7", "8", "9">>

\* str(v) of a loss value 0..9
Str(v) == <<Digits[v + 1]>>

\* the fields of a row joined by the delimiter
RECURSIVE JoinFields(_)
JoinFields(row) ==
    IF row = <<>> THEN <<>>
    ELSE IF Len(row) = 1 THEN Str(row[1])
    ELSE Str(row[1]) \o <<",">> \o JoinFields(Tail(row))

\* csv.writer.writerow: the joined fields and the line terminator "\r\n"
FormatRow(row) == JoinFields(row) \o <<"\r", "\n">>

\* open(name, 'a'): nothing is truncated
OpenAppend(fsys, name) ==
    [fsys EXCEPT ![name] = [exists |-> TRUE, text |-> fsys[name].text]]

\* open(name, 'w'): the file is created or truncated to nothing at once
OpenWrite(fsys, name) ==
    [fsys EXCEPT ![name] = [exists |-> TRUE, text |-> <<>>]]

\* csv.writer(file).writerows(rows) into the file object's buffer
RECURSIVE writerows(_, _)
writerows(buffer, rows) ==
    IF rows = <<>> THEN buffer
    ELSE writerows(buffer \o FormatRow(Head(rows)), Tail(rows))

\* the file object is closed: its buffer reaches the file
Close(fsys, name, buffer) ==
    [fsys EXCEPT ![name].text = fsys[name].text \o buffer]

\* save_loss_data(tracked_loss, test_loss) on file system fsys: both file
\* objects are local and are closed when the function returns
save_loss_data(fsys, tracked_loss, test_loss) ==
    LET fs1 == OpenWrite(fsys, "Epoch Loss.csv")
        buf1 == writerows(<<>>, tracked_loss)
        fs2 == OpenWrite(fs1, "Test Loss.csv")
        buf2 == writerows(<<>>, test_loss)
    IN Close(Close(fs2, "Epoch Loss.csv", buf1), "Test Loss.csv", buf2)

\* rows of losses: one field, two fields
LossRows == {<<3>>, <<0, 7>>}

LossLists == UNION {[1 .. n -> LossRows] : n \in 0 .. MaxRows}

InitLoss ==
    /\ op = "init"
    /\ args = <<>>
    /\ ret = Pending
    /\ fs = NoFiles
    /\ prevSize = 0

SaveLossData ==
    \E tracked_loss \in LossLists, test_loss \in LossLists :
        /\ prevSize' = Len(fs["Epoch Loss.csv"].text)
        /\ op' = "save_loss_data"
        /\ args' = [tracked_loss |-> tracked_loss, test_loss |-> test_loss]
        /\ ret' = Ok(<<>>)
        /\ fs' = save_loss_data(fs, tracked_loss, test_loss)

NextLoss == SaveLossData

SpecLoss == InitLoss /\ [][NextLoss]_vars

-----------------------------------------------------------------------------
(* blocks.py: layers.  A feature map is the result record of the statement  *)
(* that computed it: [status, value, line], value its shape when status is  *)
(* "ok", line the source line that raised otherwise.  A layer applied to a  *)
(* raised result passes it on: the statements after a raise do not run.     *)

Res(shape) == [status |-> "ok", value |-> shape, line |-> 0]
RaiseAt(e, line) == [status |-> e, value |-> <<>>, line |-> line]

\* nn.Conv2d(cin, cout, kernel_size=k, padding=pad) applied to r
Conv2d(r, cin, cout, k, pad, line) ==
    IF r.status # "ok" THEN r
    ELSE LET s == r.value
         IN IF Len(s) # 4 \/ s[2] # cin THEN RaiseAt("RuntimeError", line)
            ELSE IF s[3] + 2 * pad < k \/ s[4] + 2 * pad < k THEN RaiseAt("RuntimeError", line)
            ELSE Res(<<s[1], cout, s[3] + 2 * pad - k + 1, s[4] + 2 * pad - k + 1>>)

\* nn.GroupNorm(1, channels) applied to r
GroupNorm(r, channels, line) ==
    IF r.status # "ok" THEN r
    ELSE IF Len(r.value) < 2 \/ r.value[2] # channels THEN RaiseAt("RuntimeError", line)
    ELSE r

\* a + b with broadcasting
Add(a, b, line) ==
    IF a.status # "ok" THEN a
    ELSE IF b.status # "ok" THEN b
    ELSE IF ~Broadcastable(a.value, b.value) THEN RaiseAt("RuntimeError", line)
    ELSE Res(BroadcastShape(a.value, b.value))

\* nn.MaxPool2d(2) applied to r
MaxPool2d(r, line) ==
    IF r.status # "ok" THEN r
    ELSE LET s == r.value
         IN IF Len(s) # 4 \/ s[3] \div 2 = 0 \/ s[4] \div 2 = 0 THEN RaiseAt("RuntimeError", line)
            ELSE Res(<<s[1], s[2], s[3] \div 2, s[4] \div 2>>)

\* nn.Upsample(scale_factor=2, mode="bilinear") applied to r
Upsample(r, line) ==
    IF r.status # "ok" THEN r
    ELSE LET s == r.value
         IN IF Len(s) # 4 THEN RaiseAt("RuntimeError", line)
            ELSE Res(<<s[1], s[2], 2 * s[3], 2 * s[4]>>)

\* torch.cat([a, b], dim=1): every axis but the channel axis must agree
Cat1(a, b, line) ==
    IF a.status # "ok" THEN a
    ELSE IF b.status # "ok" THEN b
    ELSE LET s == a.value
             t == b.value
         IN IF Len(s) # Len(t) \/ Len(s) < 2 THEN RaiseAt("RuntimeError", line)
            ELSE IF \E k \in 1 .. Len(s) : k # 2 /\ s[k] # t[k] THEN RaiseAt("RuntimeError", line)
            ELSE Res([s EXCEPT ![2] = s[2] + t[2]])

\* nn.Linear(fin, fout) applied to r
Linear(r, fin, fout, line) ==
    IF r.status # "ok" THEN r
    ELSE LET s == r.value
         IN IF s = <<>> \/ s[Len(s)] # fin THEN RaiseAt("RuntimeError", line)
            ELSE Res([s EXCEPT ![Len(s)] = fout])

\* self.embedded_block(position)[:, :, None, None].repeat(1, 1, h, w)
EmbedRepeat(position, emb_dim, dim_out, h, w, line) ==
    LET e == Linear(position, emb_dim, dim_out, line)
    IN IF e.status # "ok" THEN e
       ELSE IF Len(e.value) # 2 THEN RaiseAt("IndexError", line)
       ELSE Res(<<e.value[1], e.value[2], h, w>>)

-----------------------------------------------------------------------------
(* blocks.py: ConvReluBlock, EncoderBlock, DecoderBlock *)

ConvReluBlock(dim_in, dim_out, residual_connection) ==
    [dim_in |-> dim_in, dim_out |-> dim_out, residual_connection |-> residual_connection]

ConvReluBlock_forward(self, x) ==
    LET x1 == Conv2d(x, self.dim_in, self.dim_out, 3, 1, 41)
        x2 == GroupNorm(x1, self.dim_out, 42)
        x3 == x2
        x4 == Conv2d(x3, self.dim_out, self.dim_out, 3, 0, 46)
        x5 == GroupNorm(x4, self.dim_out, 47)
    IN IF x5.status # "ok" THEN x5
       ELSE IF self.residual_connection THEN Add(x, x5, 51)
       ELSE x5

EmbDimDefault == 256

EncoderBlock(dim_in, dim_out) ==
    [encoder_block1 |-> ConvReluBlock(dim_in, dim_in, TRUE),
     encoder_block2 |-> ConvReluBlock(dim_in, dim_out, FALSE),
     emb_dim |-> EmbDimDefault,
     dim_out |-> dim_out]

EncoderBlock_forward(self, x, position) ==
    LET x1 == MaxPool2d(x, 89)
        x2 == ConvReluBlock_forward(self.encoder_block1, x1)
        x3 == ConvReluBlock_forward(self.encoder_block2, x2)
    IN IF x3.status # "ok" THEN x3
       ELSE Add(EmbedRepeat(position, self.emb_dim, self.dim_out, x3.value[3], x3.value[4], 92),
                x3, 93)

DecoderBlock(dim_in, dim_out) ==
    [decoder_block1 |-> ConvReluBlock(dim_in, dim_in, TRUE),
     decoder_block2 |-> ConvReluBlock(dim_in, dim_out, FALSE),
     emb_dim |-> EmbDimDefault,
     dim_out |-> dim_out]

DecoderBlock_forward(self, x, skip_tensor, position) ==
    LET x1 == Upsample(x, 130)
        x2 == Cat1(skip_tensor, x1, 131)
        x3 == ConvReluBlock_forward(self.decoder_block1, x2)
        x4 == ConvReluBlock_forward(self.decoder_block2, x3)
    IN IF x4.status # "ok" THEN x4
       ELSE Add(EmbedRepeat(position, self.emb_dim, self.dim_out, x4.value[3], x4.value[4], 134),
                x4, 135)

-----------------------------------------------------------------------------
(* blocks.py: AttentionBlock.  A Python number is [t, num, den]: an int    *)
(* num (den = 1) or the float num / den.                                   *)

PyInt(n) == [t |-> "int", num |-> n, den |-> 1]

\* a / b of two ints: always a float
TrueDiv(a, b) == [t |-> "float", num |-> a, den |-> b]

\* p * q: an int only when both are
PyMul(p, q) ==
    [t |-> IF p.t = "int" /\ q.t = "int" THEN "int" ELSE "float",
     num |-> p.num * q.num,
     den |-> p.den * q.den]

NumHeads == 4

\* AttentionBlock(dims, dim_size): nn.MultiheadAttention asserts that the
\* heads divide dims; dim_size is stored as given
AttentionBlock(dims, dim_size) ==
    IF dims % NumHeads # 0 THEN RaiseAt("AssertionError", 153)
    ELSE Ok([dims |-> dims, dim_size |-> dim_size])

\* r.view(-1, sizes...): the sizes must be ints and divide the element count
View(r, sizes, line) ==
    IF r.status # "ok" THEN r
    ELSE IF \E k \in 1 .. Len(sizes) : sizes[k].t # "int" THEN RaiseAt("TypeError", line)
    ELSE LET known == Numel([k \in 1 .. Len(sizes) |-> sizes[k].num])
             n == Numel(r.value)
         IN IF known <= 0 \/ n % known # 0 THEN RaiseAt("RuntimeError", line)
            ELSE Res(<<n \div known>> \o [k \in 1 .. Len(sizes) |-> sizes[k].num])

\* r.swapaxes(1, 2) of a 3-D tensor
Swapaxes12(r) ==
    IF r.status # "ok" THEN r ELSE Res(<<r.value[1], r.value[3], r.value[2]>>)

\* self.mha_block(q, q, q)[0], batch_first: (batch, sequence, dims)
MultiheadAttention(r, dims, line) ==
    IF r.status # "ok" THEN r
    ELSE IF Len(r.value) # 3 \/ r.value[3] # dims THEN RaiseAt("AssertionError", line)
    ELSE r

\* nn.LayerNorm([dims]) applied to r
LayerNorm(r, dims, line) ==
    IF r.status # "ok" THEN r
    ELSE IF r.value = <<>> \/ r.value[Len(r.value)] # dims THEN RaiseAt("RuntimeError", line)
    ELSE r

AttentionBlock_forward(self, x) ==
    LET d == self.dims
        x0 == Swapaxes12(View(x, <<PyInt(d), PyMul(self.dim_size, self.dim_size)>>, 170))
        x1 == Linear(x0, d, d, 171)
        x2 == MultiheadAttention(x1, d, 172)
        x3 == Add(x2, x0, 173)
        x4 == LayerNorm(x3, d, 174)
        x5 == Linear(x4, d, d, 175)
        x6 == x5
        x7 == Linear(x6, d, d, 177)
        x8 == Add(x7, x3, 178)
    IN View(Swapaxes12(x8), <<PyInt(d), self.dim_size, self.dim_size>>, 180)

-----------------------------------------------------------------------------
(* blocks.py: UNet *)

\* UNet(dim_in_out, m_dim, pos_dim): the attributes __init__ sets, or the
\* exception the first failing constructor raises
UNet(dim_in_out, m_dim, pos_dim) ==
    LET attention == <<AttentionBlock(m_dim * 2, TrueDiv(m_dim, 2)),
                       AttentionBlock(m_dim * 4, TrueDiv(m_dim, 4)),
                       AttentionBlock(m_dim * 4, TrueDiv(m_dim, 8)),
                       AttentionBlock(m_dim * 2, TrueDiv(m_dim, 4)),
                       AttentionBlock(m_dim, TrueDiv(m_dim, 2)),
                       AttentionBlock(m_dim, PyInt(m_dim))>>
    IN IF \E k \in 1 .. 6 : attention[k].status # "ok" THEN RaiseAt("AssertionError", 153)
       ELSE Ok([pos_dim |-> pos_dim,
                in_layer |-> ConvReluBlock(dim_in_out, m_dim, FALSE),
                decoder1 |-> DecoderBlock(m_dim, m_dim * 2),
                attention1 |-> attention[1].value,
                decoder2 |-> DecoderBlock(m_dim * 2, m_dim * 4),
                attention2 |-> attention[2].value,
                decoder3 |-> DecoderBlock(m_dim * 4, m_dim * 4),
                attention3 |-> attention[3].value,
                b1 |-> ConvReluBlock(m_dim * 4, m_dim * 8, FALSE),
                b2 |-> ConvReluBlock(m_dim * 8, m_dim * 8, FALSE),
                b3 |-> ConvReluBlock(m_dim * 8, m_dim * 4, FALSE),
                encoder1 |-> EncoderBlock(m_dim * 8, m_dim * 4),
                attention4 |-> attention[4].value,
                encoder2 |-> EncoderBlock(m_dim * 4, m_dim),
                attention5 |-> attention[5].value,
                encoder3 |-> EncoderBlock(m_dim * 2, m_dim),
                attention6 |-> attention[6].value,
                out_layer |-> [dim_in |-> m_dim, dim_out |-> dim_in_out]])

\* self.name: nn.Module.__getattr__ raises for a name __init__ never set
GetAttr(self, name, line) ==
    IF name \in DOMAIN self THEN Res(<<name>>) ELSE RaiseAt("AttributeError", line)

\* UNet.forward(x, position): its four statements in order.  No attribute
\* it calls is set by __init__ or defined by the class; what they would
\* compute is defined nowhere ("undefined").
UNet_forward(self, x, position) ==
    LET position_block == GetAttr(self, "position_block", 250)
        unet_encoder == GetAttr(self, "unet_encoder", 251)
        unet_decoder == GetAttr(self, "unet_decoder", 252)
        unet_head == GetAttr(self, "unet_head", 253)
    IN IF position_block.status # "ok" THEN position_block
       ELSE IF unet_encoder.status # "ok" THEN unet_encoder
       ELSE IF unet_decoder.status # "ok" THEN unet_decoder
       ELSE IF unet_head.status # "ok" THEN unet_head
       ELSE RaiseAt("undefined", 253)

\* torch.cat((b, a), dim=-1): the halves in the other order
CatLastSwapped(a, b) ==
    Tensor(<<a.shape[1], a.shape[2] + b.shape[2]>>,
           [i \in Indices(<<a.shape[1], a.shape[2] + b.shape[2]>>) |->
               IF i[2] < b.shape[2] THEN b.data[i] ELSE a.data[<<i[1], i[2] - b.shape[2]>>]],
           a.device)

\* torch.cat((a, b), dim=-1) of two 2-D tensors with as many rows
CatLast(a, b) ==
    Tensor(<<a.shape[1], a.shape[2] + b.shape[2]>>,
           [i \in Indices(<<a.shape[1], a.shape[2] + b.shape[2]>>) |->
               IF i[2] < a.shape[2] THEN a.data[i] ELSE b.data[<<i[1], i[2] - a.shape[2]>>]],
           a.device)

\* UNet.positional_embedding(position, dims), position a 1-D tensor (a
\* sequence of timesteps).  An entry [fn, t, k, den] stands for
\* fn(t * exp(-k * log(10000) / den)).
positional_embedding(position, dims) ==
    LET half == dims \div 2
        den == half - 1
        shape == <<Len(position), half>>
        angle == [i \in Indices(shape) |-> [t |-> position[i[1] + 1], k |-> i[2], den |-> den]]
        sin == Tensor(shape, [i \in Indices(shape) |-> [fn |-> "sin"] @@ angle[i]], "cpu")
        cos == Tensor(shape, [i \in Indices(shape) |-> [fn |-> "cos"] @@ angle[i]], "cpu")
    IN IF den = 0 THEN RaiseAt("ZeroDivisionError", 232)
       ELSE [status |-> "ok", value |-> CatLast(sin, cos), line |-> 0]

-----------------------------------------------------------------------------
(* The blocks as a state machine: a caller about to call one forward        *)
(* method (op, args) and the call itself                                   *)

MaxFeature == 4  \* feature maps of height and width 1..MaxFeature
MaxDims == 6     \* positional_embedding is asked for 0..MaxDims dims

FeatureShapes ==
    {<<b, c, h, w>> : b \in 1 .. MaxBatch, c \in 1 .. MaxChan,
                      h \in 1 .. MaxFeature, w \in 1 .. MaxFeature}

\* m_dim of the UNets built: the default and two small multipliers
MDims == {2, 4, 8, 64}

\* image sides given to UNet.forward
ImageSides == {MaxFeature, 256}

\* timesteps given to positional_embedding
Timesteps == {0, 1, 999}

AttentionNames == <<"attention1", "attention2", "attention3",
                    "attention4", "attention5", "attention6">>

\* the resolution UNet.__init__ means attention block k to work at
\* (its comments: 32, 16, 8, 16, 32, 64 for m_dim = 64)
AttentionResolution(m_dim, k) ==
    <<m_dim \div 2, m_dim \div 4, m_dim \div 8, m_dim \div 4, m_dim \div 2, m_dim>>[k]

ConvReluCalls ==
    [self : {ConvReluBlock(i, o, r) : i \in 1 .. MaxChan, o \in 1 .. MaxChan, r \in BOOLEAN},
     x : {Res(s) : s \in FeatureShapes}]

EncoderCalls ==
    {[self |-> EncoderBlock(i, o), x |-> Res(<<b, c, 2 * h, 2 * w>>),
      position |-> Res(<<b, EmbDimDefault>>)] :
        i \in 1 .. MaxChan, o \in 1 .. MaxChan, b \in 1 .. MaxBatch, c \in 1 .. MaxChan,
        h \in 1 .. MaxFeature, w \in 1 .. MaxFeature}

DecoderCalls ==
    {[self |-> DecoderBlock(i, o), x |-> Res(<<xs[1], xs[2], xs[3], xs[4]>>),
      skip_tensor |-> Res(<<xs[1], ss[2], ss[3], ss[4]>>),
      position |-> Res(<<xs[1], EmbDimDefault>>)] :
        i \in 1 .. 2 * MaxChan, o \in 1 .. MaxChan,
        xs \in ImageShapes, ss \in {t \in FeatureShapes : t[1] = 1}}

\* blocks built directly with an int dim_size, and the six blocks of a UNet
\* with an input of the resolution each is meant for
AttentionCalls ==
    {[self |-> AttentionBlock(d, PyInt(r)).value, x |-> Res(<<b, c, h, w>>), resolution |-> r] :
        d \in {NumHeads, 2 * NumHeads}, r \in 1 .. MaxSide, b \in 1 .. MaxBatch,
        c \in {NumHeads, 2 * NumHeads}, h \in 1 .. MaxSide, w \in 1 .. MaxSide}
    \cup
    {[self |-> UNet(1, m, EmbDimDefault).value[AttentionNames[k]],
      x |-> Res(<<b, UNet(1, m, EmbDimDefault).value[AttentionNames[k]].dims,
                  AttentionResolution(m, k), AttentionResolution(m, k)>>),
      resolution |-> AttentionResolution(m, k)] :
        m \in {n \in MDims : UNet(1, n, EmbDimDefault).status = "ok"
                              /\ AttentionResolution(n, 3) >= 1},
        k \in 1 .. 6, b \in 1 .. MaxBatch}

UNetCalls ==
    {[self |-> UNet(c, m, EmbDimDefault).value, dim_in_out |-> c,
      x |-> Res(<<b, c, s, s>>), position |-> Res(<<b>>)] :
        c \in 1 .. MaxChan, m \in {n \in MDims : UNet(1, n, EmbDimDefault).status = "ok"},
        b \in 1 .. MaxBatch, s \in ImageSides}

EmbeddingCalls ==
    [position : UNION {[1 .. n -> Timesteps] : n \in 1 .. MaxBatch}, dims : 0 .. MaxDims]

InitBlocks ==
    /\ ret = Pending
    /\ fs = NoFiles
    /\ prevSize = 0
    /\ \/ op = "ConvReluBlock.forward" /\ args \in ConvReluCalls
       \/ op = "EncoderBlock.forward" /\ args \in EncoderCalls
       \/ op = "DecoderBlock.forward" /\ args \in DecoderCalls
       \/ op = "AttentionBlock.forward" /\ args \in AttentionCalls
       \/ op = "UNet.forward" /\ args \in UNetCalls
       \/ op = "UNet.positional_embedding" /\ args \in EmbeddingCalls

ConvReluForward ==
    /\ op = "ConvReluBlock.forward" /\ ret = Pending
    /\ ret' = ConvReluBlock_forward(args.self, args.x)
    /\ UNCHANGED <<op, args, fs, prevSize>>

EncoderForward ==
    /\ op = "EncoderBlock.forward" /\ ret = Pending
    /\ ret' = EncoderBlock_forward(args.self, args.x, args.position)
    /\ UNCHANGED <<op, args, fs, prevSize>>

DecoderForward ==
    /\ op = "DecoderBlock.forward" /\ ret = Pending
    /\ ret' = DecoderBlock_forward(args.self, args.x, args.skip_tensor, args.position)
    /\ UNCHANGED <<op, args, fs, prevSize>>

AttentionForward ==
    /\ op = "AttentionBlock.forward" /\ ret = Pending
    /\ ret' = AttentionBlock_forward(args.self, args.x)
    /\ UNCHANGED <<op, args, fs, prevSize>>

UNetForward ==
    /\ op = "UNet.forward" /\ ret = Pending
    /\ ret' = UNet_forward(args.self, args.x, args.position)
    /\ UNCHANGED <<op, args, fs, prevSize>>

PositionalEmbedding ==
    /\ op = "UNet.positional_embedding" /\ ret = Pending
    /\ ret' = positional_embedding(args.position, args.dims)
    /\ UNCHANGED <<op, args, fs, prevSize>>

NextBlocks ==
    \/ ConvReluForward
    \/ EncoderForward
    \/ DecoderForward
    \/ AttentionForward
    \/ UNetForward
    \/ PositionalEmbedding

SpecBlocks == InitBlocks /\ [][NextBlocks]_vars

-----------------------------------------------------------------------------
(* Claims about utils.py *)

\* the position after the first line terminator in text, 0 if there is none
RECURSIVE LineEnd(_, _)
LineEnd(text, k) ==
    IF k + 1 > Len(text) THEN 0
    ELSE IF text[k] = "\r" /\ text[k + 1] = "\n" THEN k + 1
    ELSE LineEnd(text, k + 1)

\* the number a digit character stands for
DigitValue(c) == CHOOSE v \in 0 .. 9 : Digits[v + 1] = c

\* the fields of one line (without its terminator), read as numbers
RECURSIVE ReadFields(_)
ReadFields(line) ==
    IF line = <<>> THEN <<>>
    ELSE IF Len(line) = 1 THEN <<DigitValue(line[1])>>
    ELSE <<DigitValue(line[1])>> \o ReadFields(SubSeq(line, 3, Len(line)))

\* the rows a csv reader finds in a text
RECURSIVE ReadRows(_)
ReadRows(text) ==
    IF text = <<>> THEN <<>>
    ELSE LET e == LineEnd(text, 1)
         IN <<ReadFields(SubSeq(text, 1, e - 2))>> \o ReadRows(SubSeq(text, e + 1, Len(text)))

\* C8: after any sequence of save_loss_data calls, "Epoch Loss.csv" holds
\* exactly the rows of the last call's tracked_loss and "Test Loss.csv"
\* exactly the rows of the last call's test_loss.
C8_FilesHoldLastCall ==
    op = "save_loss_data" =>
        /\ fs["Epoch Loss.csv"].exists
        /\ fs["Test Loss.csv"].exists
        /\ ReadRows(fs["Epoch Loss.csv"].text) = args.tracked_loss
        /\ ReadRows(fs["Test Loss.csv"].text) = args.test_loss

\* a call that began with more text in "Epoch Loss.csv" than it wrote has
\* left only its own row
C8_Witness ==
    /\ op = "save_loss_data"
    /\ prevSize > Len(fs["Epoch Loss.csv"].text)
    /\ args.tracked_loss = <<<<3>>>>
    /\ args.test_loss = <<>>
    /\ fs["Epoch Loss.csv"].text = <<"3", "\r", "\n">>
    /\ fs["Test Loss.csv"].text = <<>>

InSchedule(pos) == \A k \in 1 .. Len(pos) : 0 <= pos[k] /\ pos[k] < 1000

AddNoiseDone == op = "add_noise" /\ ret # Pending

\* entry t of alpha_cumprod
Acp(t) == AlphaCumprod.data[<<t>>]

\* the result is (noisy, noise), both of x's shape, and every element of
\* noisy is sqrt(acp[t]) * x + sqrt(1 - acp[t]) * noise with t the timestep
\* of the element's batch entry (the only timestep when pos has one entry)
NoisedAsSpecified ==
    /\ ret.status = "ok"
    /\ LET x == args.x
           pos == args.pos
           noisy == ret.value[1]
           noise == ret.value[2]
       IN /\ noisy.shape = x.shape
          /\ noise.shape = x.shape
          /\ \A i \in Indices(x.shape) :
                LET t == IF Len(pos) = 1 THEN pos[1] ELSE pos[i[1] + 1]
                IN noisy.data[i] = FSqrt(Acp(t)) * x.data[i]
                                   + FSqrt(Scale - Acp(t)) * noise.data[i]

C3_OutOfRangeRaisesIndexError ==
    (AddNoiseDone /\ args.x.device = "cuda" /\ ~InSchedule(args.pos))
        => ret.status = "IndexError"

\* C4: get_sample_pos(size) returns exactly size integers t with
\* 1 <= t < 1000, and add_noise called with them raises no index error.
C4_SampledTimestepsValid ==
    /\ (op = "get_sample_pos" /\ ret # Pending) =>
          /\ ret.status = "ok"
          /\ Len(ret.value) = args.size
          /\ \A k \in 1 .. Len(ret.value) : 1 <= ret.value[k] /\ ret.value[k] < 1000
    /\ AddNoiseDone => ret.status # "IndexError"

C4_Witness ==
    /\ AddNoiseDone
    /\ ret.status = "ok"
    /\ Len(args.pos) = 1
    /\ args.pos[1] = 999

\* C5: get_noise_cadence() returns 1000 values, beta[0] = 1e-4,
\* beta[999] = 0.02, all within [1e-4, 0.02], non-decreasing; alpha_cumprod
\* computed from it is non-increasing and alpha_cumprod[0] = 1 - beta[0].
C5_ScheduleLinearMonotone ==
    (op = "get_noise_cadence" /\ ret # Pending) =>
        /\ ret.status = "ok"
        /\ LET beta == ret.value
           IN /\ beta.shape = <<1000>>
              /\ beta.data[<<0>>] = LinStart
              /\ beta.data[<<999>>] = LinEnd
              /\ \A i \in 0 .. 999 : LinStart <= beta.data[<<i>>] /\ beta.data[<<i>>] <= LinEnd
              /\ \A i \in 0 .. 998 : beta.data[<<i>>] <= beta.data[<<i + 1>>]
              /\ AlphaCumprod.shape = <<1000>>
              /\ \A i \in 0 .. 998 : Acp(i + 1) <= Acp(i)
              /\ Acp(0) = Scale - beta.data[<<0>>]

C5_Witness ==
    /\ op = "get_noise_cadence"
    /\ ret.status = "ok"
    /\ ret.value.shape = <<1000>>
    /\ ret.value.data[<<499>>] < ret.value.data[<<500>>]
    /\ Acp(999) < Acp(0)

-----------------------------------------------------------------------------
(* Claims about blocks.py *)

Done(name) == op = name /\ ret # Pending

\* C1: UNet.forward(x, position) on a UNet built by UNet.__init__, x of
\* shape (B, C, H, W) and position of shape (B,), runs to completion and
\* returns a tensor of shape (B, out_channels, H, W).
C1_ForwardReturnsImageShape ==
    Done("UNet.forward") =>
        /\ ret.status = "ok"
        /\ ret.value = <<args.x.value[1], args.dim_in_out, args.x.value[3], args.x.value[4]>>

\* the embedding has one row per timestep, each row the sine half followed
\* by the cosine half of timestep * exp(-k * log(10000) / (dims/2 - 1)),
\* k = 0 .. dims/2 - 1
EmbeddingAsSpecified ==
    /\ ret.status = "ok"
    /\ LET e == ret.value
           half == args.dims \div 2
       IN /\ e.shape = <<Len(args.position), args.dims>>
          /\ \A i \in Indices(e.shape) :
                e.data[i] = [fn |-> IF i[2] < half THEN "sin" ELSE "cos",
                             t |-> args.position[i[1] + 1],
                             k |-> IF i[2] < half THEN i[2] ELSE i[2] - half,
                             den |-> half - 1]

\* C6 as stated: positional_embedding(position, dims) returns, for a batch
\* of B timesteps and every dims, one embedding of length dims per batch
\* element, the sine half followed by the cosine half.
C6_AsStated ==
    Done("UNet.positional_embedding") => EmbeddingAsSpecified

\* C6 amended: the same for every even dims >= 4.
C6_EmbeddingShapeEvenDims ==
    (Done("UNet.positional_embedding") /\ args.dims % 2 = 0 /\ args.dims >= 4)
        => EmbeddingAsSpecified

C6_Witness ==
    /\ Done("UNet.positional_embedding")
    /\ args.dims = 6
    /\ args.position = <<1, 999>>
    /\ ret.status = "ok"
    /\ ret.value.shape = <<2, 6>>
    /\ ret.value.data[<<1, 4>>] = [fn |-> "cos", t |-> 999, k |-> 1, den |-> 2]

\* C7: AttentionBlock.forward(x) returns a tensor of the shape of x for an
\* x of the block's channel count and the spatial resolution the block was
\* instantiated for, the six blocks of UNet.__init__ included.
C7_AttentionKeepsShape ==
    (/\ Done("AttentionBlock.forward")
     /\ args.x.value[2] = args.self.dims
     /\ args.x.value[3] = args.resolution
     /\ args.x.value[4] = args.resolution)
        => (ret.status = "ok" /\ ret.value = args.x.value)

\* C9: DecoderBlock.forward(x, skip_tensor, position) aligns the skip tensor
\* with the upsampled x before concatenating: whenever the skip's height and
\* width are >= twice those of x, the concatenation (line 131) succeeds.
C9_SkipAlignedBeforeConcat ==
    (/\ Done("DecoderBlock.forward")
     /\ args.skip_tensor.value[3] >= 2 * args.x.value[3]
     /\ args.skip_tensor.value[4] >= 2 * args.x.value[4])
        => ~(ret.status # "ok" /\ ret.line = 131)

\* C10: ConvReluBlock.forward(x) returns shape (B, dim_out, H-2, W-2) for
\* every x of shape (B, dim_in, H, W) with H, W >= 3, with
\* residual_connection False and with it True and dim_in = dim_out; the
\* residual addition never raises.
C10_ConvReluShape ==
    (/\ Done("ConvReluBlock.forward")
     /\ args.x.value[2] = args.self.dim_in
     /\ args.x.value[3] >= 3
     /\ args.x.value[4] >= 3
     /\ (args.self.residual_connection => args.self.dim_in = args.self.dim_out))
        => /\ ret.status = "ok"
           /\ ret.value = <<args.x.value[1], args.self.dim_out,
                             args.x.value[3] - 2, args.x.value[4] - 2>>

====
